---- MODULE Spec2Model ----
(***************************************************************************)
(* TwitterMediaUpload.execute (nodes/Twitter/TwitterMediaUpload.node.ts)   *)
(* as a state machine: the credential check, the loop over the input       *)
(* items, and per item the parameter reads, the binary resolution, the     *)
(* multipart form assembly, the single HTTPS exchange and the catch block. *)
(* The two awaits of an iteration (getBinaryDataBuffer, the response       *)
(* promise) are the points where an iteration is suspended.                *)
(***************************************************************************)
EXTENDS Integers, Sequences, FiniteSets, TLC

\* ---------------------------------------------------------------- bounds
MaxItems == 2
MaxAttachments == 2

\* ------------------------------------------------------ program constants
MaxOwners == 100
ErrorStatus == 400

\* JS null / undefined, and a block-scoped local that is out of scope.
Null == "\\null"
requestUrl == "https://upload.twitter.com/1.1/media/upload.json"

\* ------------------------------------------------------- string helpers
Char(s, i) == SubSeq(s, i, i)

\* String.prototype.startsWith
StartsWith(s, p) == Len(s) >= Len(p) /\ SubSeq(s, 1, Len(p)) = p

Digits == "0123456789"

\* String(n) for a non-negative integer: its decimal digits.
RECURSIVE String(_)
String(n) ==
    IF n < 10 THEN Char(Digits, n + 1)
    ELSE String(n \div 10) \o Char(Digits, (n % 10) + 1)

\* String.prototype.split(sep) for a one-character separator: the pieces
\* between separators, empty pieces kept.  Computed by halves: the last
\* piece of the left half and the first piece of the right half are one piece.
RECURSIVE Split(_, _)
Split(s, sep) ==
    IF Len(s) = 0 THEN << "" >>
    ELSE IF Len(s) = 1 THEN (IF s = sep THEN << "", "" >> ELSE << s >>)
    ELSE LET m == Len(s) \div 2
             l == Split(SubSeq(s, 1, m), sep)
             r == Split(SubSeq(s, m + 1, Len(s)), sep)
         IN  SubSeq(l, 1, Len(l) - 1) \o << l[Len(l)] \o r[1] >> \o Tail(r)

WhiteSpace == {" ", "\t"}

RECURSIVE TrimStart(_)
TrimStart(s) ==
    IF Len(s) > 0 /\ Char(s, 1) \in WhiteSpace THEN TrimStart(Tail(s)) ELSE s

RECURSIVE TrimEnd(_)
TrimEnd(s) ==
    IF Len(s) > 0 /\ Char(s, Len(s)) \in WhiteSpace
    THEN TrimEnd(SubSeq(s, 1, Len(s) - 1))
    ELSE s

\* String.prototype.trim
Trim(s) == TrimEnd(TrimStart(s))

\* Array.prototype.join, by halves
RECURSIVE Join(_, _)
Join(list, sep) ==
    IF Len(list) = 0 THEN ""
    ELSE IF Len(list) = 1 THEN list[1]
    ELSE LET m == Len(list) \div 2
         IN  Join(SubSeq(list, 1, m), sep) \o sep
             \o Join(SubSeq(list, m + 1, Len(list)), sep)

\* Array.prototype.map(id => id.trim())
TrimAll(list) == [i \in 1..Len(list) |-> Trim(list[i])]

NonEmpty(id) == Len(id) > 0

\* Array.prototype.filter(id => id.length > 0)
FilterNonEmpty(list) == SelectSeq(list, NonEmpty)

\* additionalOwners.split(',').map(id => id.trim()).filter(id => id.length > 0)
OwnersList(additionalOwners) ==
    FilterNonEmpty(TrimAll(Split(additionalOwners, ",")))

\* ownersList.length > 100
TooManyOwners(ownersList) == Len(ownersList) > MaxOwners

\* --------------------------------------------------------------- inputs
\* count ids, comma-separated.
Repeat(id, count) == Join([i \in 1..count |-> id], ",")

\* requiredFields: the label reported for each field
requiredFields ==
    << [field |-> "consumerKey", label |-> "Consumer Key"],
       [field |-> "consumerSecret", label |-> "Access Token"],
       [field |-> "accessToken", label |-> "Access Token"],
       [field |-> "accessSecret", label |-> "Access Token Secret"] >>

\* What getCredentials('twitterApi') may hand back: nothing, or the four
\* fields, each set or empty.
NoCredentials == [present |-> FALSE, consumerKey |-> "", consumerSecret |-> "",
                  accessToken |-> "", accessSecret |-> ""]

CredentialInputs ==
    {NoCredentials} \cup
    [present : {TRUE}, consumerKey : {"", "ck"}, consumerSecret : {"", "cs"},
     accessToken : {"", "at"}, accessSecret : {"", "as"}]

\* The binary attachments an item may carry (IBinaryData: mimeType,
\* fileName, and the payload getBinaryDataBuffer returns for it).
Attachments ==
    { [key |-> "data", mimeType |-> "image/png", fileName |-> "d.png", data |-> "PNG"],
      [key |-> "photo", mimeType |-> "image/jpeg", fileName |-> Null, data |-> "JPEG!"],
      [key |-> "doc", mimeType |-> "text/plain", fileName |-> "n.txt", data |-> "hi"] }

DistinctKeys(b) == \A i, j \in 1..Len(b) : i # j => b[i].key # b[j].key

\* items[itemIndex].binary, in Object.keys order.
BinaryInputs ==
    UNION { {b \in [1..n -> Attachments] : DistinctKeys(b)} : n \in 0..MaxAttachments }

BinaryPropertyNames == {"data", "doc"}

\* getNodeParameter(name, itemIndex): the configured value, or a throw
\* when the parameter does not exist.
NotConfigured == "\\notConfigured"
MediaDataInputs == {NotConfigured, "", "QUJD"}
MediaCategoryInputs == {NotConfigured, "tweet_image"}
AdditionalOwnersInputs ==
    {NotConfigured, "", " , ", " 7 ,,8", Repeat("1", MaxOwners), Repeat("1", MaxOwners + 1)}

\* The remote side: a status line and the collected body text, or a
\* connection error.
StatusCodes == {201, 400, 403}
MediaJson == "{\"media_id_string\":\"7\"}"
ResponseTexts == {MediaJson, "Bad Gateway"}
RequestErrors == {"socket hang up"}
BufferErrors == {"ENOENT"}

\* ------------------------------------------------------- error objects
\* An error as the catch block reads it: message, and response (never set
\* by NodeOperationError, NodeApiError or a socket Error: << >>).
NoError == [name |-> "", message |-> "", httpCode |-> Null, response |-> << >>]

NodeOperationError(message) ==
    [name |-> "NodeOperationError", message |-> message, httpCode |-> Null,
     response |-> << >>]

Error(message) ==
    [name |-> "Error", message |-> message, httpCode |-> Null, response |-> << >>]

\* The message NodeApiError derives from httpCode when none is given.
StatusMessage(httpCode) ==
    CASE httpCode = 400 -> "Bad request - please check your parameters"
      [] httpCode = 403 -> "Forbidden - perhaps check your credentials?"
      [] OTHER -> "UNKNOWN ERROR - check the detailed error for more information"

\* new NodeApiError(node, response.body, { httpCode: response.statusCode })
NodeApiError(body, statusCode) ==
    [name |-> "NodeApiError", message |-> StatusMessage(statusCode),
     httpCode |-> String(statusCode), response |-> << >>]

\* ------------------------------------------------------ response bodies
UndefinedBody == [kind |-> "undefined", text |-> ""]

\* try { JSON.parse(data) } catch { data }
JSONparse(data) ==
    IF data = MediaJson THEN [kind |-> "object", text |-> data]
    ELSE [kind |-> "string", text |-> data]

\* { ...body }: the properties of a parsed object, the indexed characters
\* of a string.
Spread(body) ==
    IF body.kind = "object" THEN [media_id_string |-> "7"]
    ELSE [k \in {String(i - 1) : i \in 1..Len(body.text)} |->
            Char(body.text, CHOOSE i \in 1..Len(body.text) : String(i - 1) = k)]

\* { json: { success: true, ...response.body } }
SuccessRecord(body) == [json |-> Spread(body) @@ [success |-> TRUE]]

\* error.response?.body
ResponseBodyOf(error) ==
    IF error.response = << >> THEN UndefinedBody ELSE error.response[1].body

\* { json: { success: false, error: error.message, details: error.response?.body } }
FailureRecord(error) ==
    [json |-> [success |-> FALSE, error |-> error.message,
               details |-> ResponseBodyOf(error)]]

\* returnData.push(...) in the catch block
RecordFailureDropped(data, error) == data
RecordFailure(data, error) == Append(data, FailureRecord(error))

\* response.statusCode >= 400
IsErrorStatus(statusCode) == statusCode >= ErrorStatus

\* ------------------------------------------------------ item resolution
HasProperty(b, name) == \E i \in 1..Len(b) : b[i].key = name

Property(b, name) == b[CHOOSE i \in 1..Len(b) : b[i].key = name]

\* mimeType?.startsWith('image/')
IsImage(mimeType) == mimeType # Null /\ StartsWith(mimeType, "image/")

ImageIndexes(b) == {i \in 1..Len(b) : IsImage(b[i].mimeType)}

\* binaryKeys.find(key => binary[key].mimeType?.startsWith('image/'))
FindImageKeyLast(b) ==
    IF ImageIndexes(b) = {} THEN Null
    ELSE b[CHOOSE i \in ImageIndexes(b) : \A j \in ImageIndexes(b) : j <= i].key
FindImageKey(b) ==
    IF ImageIndexes(b) = {} THEN Null
    ELSE b[CHOOSE i \in ImageIndexes(b) : \A j \in ImageIndexes(b) : i <= j].key

\* !mediaType || !mediaType.startsWith('image/')
InvalidMediaTypeNever(type) == FALSE
InvalidMediaType(type) == type = Null \/ type = "" \/ ~StartsWith(type, "image/")

\* `${value}` in a template literal
Str(value) == IF value = Null THEN "undefined" ELSE value

\* binary[actualPropertyName].fileName || 'image.jpg'
FileNameOf(attachment) ==
    IF attachment.fileName = Null \/ attachment.fileName = ""
    THEN "image.jpg" ELSE attachment.fileName

\* ------------------------------------------------------- form assembly
Field(name, value) == [name |-> name, value |-> value, filename |-> Null]
FileField(name, value, filename) == [name |-> name, value |-> value, filename |-> filename]

Truthy(v) == v # Null /\ v # ""

\* oauthParams: what is signed
OAuthParams(data, type, category) ==
    << <<"command", "INIT">>, <<"totalBytes", String(Len(data))>>, <<"mediaType", type>> >>
    \o (IF Truthy(category) THEN << <<"media_category", category>> >> ELSE << >>)

\* formData up to and including the media field
BaseFormMediaFirst(data, type, category, name) ==
    << FileField("media", data, name), Field("command", "INIT"),
       Field("totalBytes", String(Len(data))), Field("mediaType", type) >>
    \o (IF Truthy(category) THEN << Field("media_category", category) >> ELSE << >>)
BaseForm(data, type, category, name) ==
    << Field("command", "INIT"), Field("totalBytes", String(Len(data))),
       Field("mediaType", type) >>
    \o (IF Truthy(category) THEN << Field("media_category", category) >> ELSE << >>)
    \o << FileField("media", data, name) >>

\* The inner try block around additionalOwners: the fields it appends.  A
\* throw inside it (the parameter does not exist, more than 100 owners) is
\* caught there and appends nothing.
OwnersFields(owners) ==
    IF owners = NotConfigured \/ ~Truthy(owners) THEN << >>
    ELSE IF TooManyOwners(OwnersList(owners)) THEN << >>
    ELSE << Field("additional_owners", Join(OwnersList(owners), ",")) >>

\* ---------------------------------------------------------------- state
VARIABLES
    pc,                 \* where execute is: start, loop, resolve, buffer,
                        \* sending, received, returned, thrown
    continueOnFail,     \* this.continueOnFail()
    credentials,        \* what getCredentials returned
    nItems,             \* items.length
    itemIndex,          \* the loop counter (0-based)
    returnData,         \* the output collected so far
    requests,           \* the HTTPS requests issued, each with the item it is for
    thrown,             \* the error execute rejected with
    binary,             \* items[itemIndex].binary
    binaryPropertyName, mediaData, mediaCategory,
    actualPropertyName, binaryData, mediaType, fileName,
    additionalOwners, oauthParams, formData,
    response            \* what the response promise resolved with

vars == << pc, continueOnFail, credentials, nItems, itemIndex, returnData,
           requests, thrown, binary, binaryPropertyName, mediaData,
           mediaCategory, actualPropertyName, binaryData, mediaType, fileName,
           additionalOwners, oauthParams, formData, response >>

host == << continueOnFail, credentials, nItems >>

params == << binary, binaryPropertyName, mediaData, mediaCategory >>

resolved == << actualPropertyName, binaryData, mediaType, fileName >>

built == << additionalOwners, oauthParams, formData >>

NoResponse == [statusCode |-> 0, body |-> UndefinedBody]

\* The locals of one iteration, out of scope.
ScopeExit ==
    /\ binary' = << >>
    /\ binaryPropertyName' = Null
    /\ mediaData' = Null
    /\ mediaCategory' = Null
    /\ actualPropertyName' = Null
    /\ binaryData' = Null
    /\ mediaType' = Null
    /\ fileName' = Null
    /\ additionalOwners' = Null
    /\ oauthParams' = << >>
    /\ formData' = << >>
    /\ response' = NoResponse

Init ==
    /\ pc = "start"
    /\ continueOnFail \in BOOLEAN
    /\ credentials = NoCredentials
    /\ nItems = 0
    /\ itemIndex = 0
    /\ returnData = << >>
    /\ requests = << >>
    /\ thrown = NoError
    /\ binary = << >>
    /\ binaryPropertyName = Null
    /\ mediaData = Null
    /\ mediaCategory = Null
    /\ actualPropertyName = Null
    /\ binaryData = Null
    /\ mediaType = Null
    /\ fileName = Null
    /\ additionalOwners = Null
    /\ oauthParams = << >>
    /\ formData = << >>
    /\ response = NoResponse

\* ------------------------------------------------- credential validation
\* The required fields that are empty, by position in requiredFields.
MissingFieldsSkipLast(c) ==
    {i \in 1..(Len(requiredFields) - 1) : c[requiredFields[i].field] = ""}
MissingFields(c) ==
    {i \in 1..Len(requiredFields) : c[requiredFields[i].field] = ""}

\* The error the credential check throws, NoError when it passes.
CredentialError(c) ==
    IF ~c.present THEN NodeOperationError("No credentials provided")
    ELSE IF MissingFields(c) # {}
    THEN NodeOperationError(
            "Missing required Twitter OAuth credential: "
            \o requiredFields[CHOOSE i \in MissingFields(c) :
                                 \A j \in MissingFields(c) : i <= j].label)
    ELSE NoError

\* execute up to the loop: getCredentials, the validation, getInputData.
\* A credential error is thrown outside the item try block.
ValidateCredentials ==
    /\ pc = "start"
    /\ \E c \in CredentialInputs :
        /\ credentials' = c
        /\ IF CredentialError(c) # NoError
           THEN /\ pc' = "thrown"
                /\ thrown' = CredentialError(c)
                /\ nItems' = nItems
           ELSE /\ pc' = "loop"
                /\ thrown' = thrown
                /\ \E n \in 0..MaxItems : nItems' = n
    /\ UNCHANGED << continueOnFail, itemIndex, returnData, requests >>
    /\ UNCHANGED << params, resolved, built, response >>

\* ------------------------------------------------------------- the loop
\* this.continueOnFail()
ShouldContinueAlways == TRUE
ShouldContinue == continueOnFail

\* The catch block of an iteration.
Catch(error) ==
    /\ IF ShouldContinue
       THEN /\ returnData' = RecordFailure(returnData, error)
            /\ itemIndex' = itemIndex + 1
            /\ pc' = "loop"
            /\ thrown' = thrown
       ELSE /\ pc' = "thrown"
            /\ thrown' = error
            /\ UNCHANGED << returnData, itemIndex >>
    /\ ScopeExit

\* getNodeParameter inside try { } catch { value = null }
OrNull(value) == IF value = NotConfigured THEN Null ELSE value

\* The head of an iteration: the parameters are read.
BeginItem ==
    /\ pc = "loop"
    /\ itemIndex < nItems
    /\ \E b \in BinaryInputs, name \in BinaryPropertyNames,
          data \in MediaDataInputs, category \in MediaCategoryInputs :
        /\ binary' = b
        /\ binaryPropertyName' = name
        /\ mediaData' = OrNull(data)
        /\ mediaCategory' = OrNull(category)
    /\ pc' = "resolve"
    /\ UNCHANGED << host, itemIndex, returnData, requests, thrown >>
    /\ UNCHANGED << resolved, built, response >>

\* return [returnData]
Return ==
    /\ pc = "loop"
    /\ itemIndex >= nItems
    /\ pc' = "returned"
    /\ UNCHANGED << host, itemIndex, returnData, requests, thrown >>
    /\ UNCHANGED << params, resolved, built, response >>

\* The property the payload is taken from: the named one when the item
\* has it, else the first image property, else Null.
ResolvedPropertyName(b, name) ==
    IF HasProperty(b, name) THEN name ELSE FindImageKey(b)

\* Binary resolution, up to the call of getBinaryDataBuffer.
ResolveBinary ==
    /\ pc = "resolve"
    /\ IF ResolvedPropertyName(binary, binaryPropertyName) = Null
       THEN /\ Catch(NodeOperationError(
                    "No binary data found in property \"" \o binaryPropertyName
                    \o "\" and no image alternatives found"))
            /\ UNCHANGED << host, requests >>
       ELSE /\ actualPropertyName' = ResolvedPropertyName(binary, binaryPropertyName)
            /\ pc' = "buffer"
            /\ UNCHANGED << host, itemIndex, returnData, requests, thrown >>
            /\ UNCHANGED << params, binaryData, mediaType, fileName, built, response >>

\* getBinaryDataBuffer rejects.
BufferRejected ==
    /\ pc = "buffer"
    /\ \E e \in BufferErrors : Catch(Error(e))
    /\ UNCHANGED << host, requests >>

\* new OAuth1Helper(...).generateAuthHeader(...), of ./TwitterUtils: it
\* fails when a credential field is empty and touches no network.  The
\* error it throws, NoError when it signs.
SignError(c) ==
    IF "" \in {c.consumerKey, c.consumerSecret, c.accessToken, c.accessSecret}
    THEN Error("Missing OAuth credential")
    ELSE NoError

\* The request leaves: one entry in the network log.
Send(log, index) ==
    Append(log, [item |-> index, method |-> "POST", url |-> requestUrl])

\* getBinaryDataBuffer resolves: the media type check (made twice in the
\* source, with the same test), the OAuth parameters and header, the form,
\* the additional owners, and the request is sent.
BuildAndSend ==
    /\ pc = "buffer"
    /\ LET attachment == Property(binary, actualPropertyName) IN
       IF InvalidMediaType(attachment.mimeType)
       THEN /\ Catch(NodeOperationError(
                    "Invalid media type: " \o Str(attachment.mimeType)
                    \o ". Only images are supported."))
            /\ UNCHANGED << host, requests >>
       ELSE IF SignError(credentials) # NoError
       THEN /\ Catch(SignError(credentials))
            /\ UNCHANGED << host, requests >>
       ELSE /\ binaryData' = attachment.data
            /\ mediaType' = attachment.mimeType
            /\ fileName' = FileNameOf(attachment)
            /\ oauthParams' = OAuthParams(attachment.data, attachment.mimeType,
                                          mediaCategory)
            /\ \E owners \in AdditionalOwnersInputs :
                /\ additionalOwners' = owners
                /\ formData' = BaseForm(attachment.data, attachment.mimeType,
                                        mediaCategory, FileNameOf(attachment))
                               \o OwnersFields(owners)
            /\ requests' = Send(requests, itemIndex)
            /\ pc' = "sending"
            /\ UNCHANGED << host, itemIndex, returnData, thrown >>
            /\ UNCHANGED << params, actualPropertyName, response >>

\* res.on('end'): the promise resolves with the status and the body.
ResponseEnd ==
    /\ pc = "sending"
    /\ \E statusCode \in StatusCodes, data \in ResponseTexts :
        response' = [statusCode |-> statusCode, body |-> JSONparse(data)]
    /\ pc' = "received"
    /\ UNCHANGED << host, itemIndex, returnData, requests, thrown >>
    /\ UNCHANGED << params, resolved, built >>

\* req.on('error') / res.on('error'): the promise rejects.
RequestError ==
    /\ pc = "sending"
    /\ \E e \in RequestErrors : Catch(Error(e))
    /\ UNCHANGED << host, requests >>

\* After the await: the status check and the success record.
Classify ==
    /\ pc = "received"
    /\ IF IsErrorStatus(response.statusCode)
       THEN Catch(NodeApiError(response.body, response.statusCode))
       ELSE /\ returnData' = Append(returnData, SuccessRecord(response.body))
            /\ itemIndex' = itemIndex + 1
            /\ pc' = "loop"
            /\ thrown' = thrown
            /\ ScopeExit
    /\ UNCHANGED << host, requests >>

Next ==
    \/ ValidateCredentials
    \/ BeginItem
    \/ Return
    \/ ResolveBinary
    \/ BufferRejected
    \/ BuildAndSend
    \/ ResponseEnd
    \/ RequestError
    \/ Classify

Spec == Init /\ [][Next]_vars

\* ================================================================ claims
InIteration == pc \in {"resolve", "buffer", "sending", "received"}

InFlight == pc \in {"sending", "received"}

Last(seq) == seq[Len(seq)]

RequestsFor(index) == Cardinality({k \in DOMAIN requests : requests[k].item = index})

FieldIndexes(form, name) == {i \in DOMAIN form : form[i].name = name}

\* ---------------------------------------------------------------- C1
\* C1: with continue-on-failure enabled, whatever the per-item outcomes,
\* execute does not throw once the credentials passed, every iteration
\* appends exactly one result at the index of the item it processed
\* (earlier results untouched), and the batch returned has one result per
\* input item.
C1_State ==
    continueOnFail =>
        /\ Len(returnData) = itemIndex
        /\ itemIndex <= nItems
        /\ (pc = "returned" => Len(returnData) = nItems)
        /\ (pc = "thrown" => itemIndex = 0 /\ thrown.name = "NodeOperationError"
                             /\ requests = << >>)

C1_Step ==
    (continueOnFail /\ returnData' # returnData) =>
        /\ InIteration
        /\ Len(returnData) = itemIndex
        /\ Len(returnData') = itemIndex + 1
        /\ SubSeq(returnData', 1, Len(returnData)) = returnData
        /\ itemIndex' = itemIndex + 1

C1_OutputMatchesInput == [](C1_State) /\ [][C1_Step]_vars

\* A batch of two was returned whose first item failed and whose second
\* succeeded.
C1_Witness ==
    /\ continueOnFail
    /\ pc = "returned"
    /\ Len(returnData) = 2
    /\ returnData[1].json.success = FALSE
    /\ returnData[2].json.success = TRUE

\* ---------------------------------------------------------------- C2
\* C2: with continue-on-failure disabled, the step at which an item fails
\* (no media, payload read error, invalid type, transport error, status >=
\* 400) makes execute throw that error, records nothing and sends nothing;
\* no step follows a throw, so no later item is processed and no batch is
\* returned; no Failure result is ever recorded.
C2_Fails ==
    \/ pc = "resolve" /\ pc' # "buffer"
    \/ pc = "buffer" /\ pc' # "sending"
    \/ pc = "sending" /\ pc' # "received"
    \/ pc = "received" /\ response.statusCode >= 400

C2_State ==
    ~continueOnFail =>
        /\ \A i \in DOMAIN returnData : returnData[i].json.success = TRUE
        /\ (pc = "thrown" => thrown # NoError)
        /\ (pc = "returned" => thrown = NoError /\ Len(returnData) = nItems)

C2_Step ==
    /\ pc # "thrown"
    /\ (~continueOnFail /\ C2_Fails) =>
            /\ pc' = "thrown"
            /\ thrown' # NoError
            /\ UNCHANGED << returnData, requests, itemIndex >>

C2_FirstFailureAborts == [](C2_State) /\ [][C2_Step]_vars

\* The first of two items got status >= 400 and execute threw: one request
\* in all, nothing recorded, the second item never begun.
C2_Witness ==
    /\ ~continueOnFail
    /\ pc = "thrown"
    /\ thrown.name = "NodeApiError"
    /\ itemIndex = 0
    /\ nItems = 2
    /\ Len(requests) = 1
    /\ returnData = << >>

\* ---------------------------------------------------------------- C3
\* C3: when the credentials are absent or one of the four fields is empty,
\* execute has thrown a NodeOperationError before the loop, under either
\* policy: no result, no Failure record, no request, no item begun.
C3_BadCredentials ==
    \/ ~credentials.present
    \/ credentials.consumerKey = ""
    \/ credentials.consumerSecret = ""
    \/ credentials.accessToken = ""
    \/ credentials.accessSecret = ""

C3_CredentialErrorAborts ==
    (pc # "start" /\ C3_BadCredentials) =>
        /\ pc = "thrown"
        /\ thrown.name = "NodeOperationError"
        /\ returnData = << >>
        /\ requests = << >>
        /\ itemIndex = 0
        /\ nItems = 0
        /\ binaryPropertyName = Null

\* Only the access secret is empty, failures are tolerated, execute threw.
C3_Witness ==
    /\ continueOnFail
    /\ pc = "thrown"
    /\ credentials.present
    /\ credentials.consumerKey # ""
    /\ credentials.consumerSecret # ""
    /\ credentials.accessToken # ""
    /\ credentials.accessSecret = ""

\* ---------------------------------------------------------------- C4
\* C4: no request is in flight for an item whose cleaned additional-owners
\* list has more than 100 entries; with exactly 100 the request carries
\* additional_owners, the 100 trimmed ids joined by commas.
C4_TooManyOwnersFails ==
    (InFlight /\ additionalOwners \notin {Null, NotConfigured, ""}) =>
        /\ Len(OwnersList(additionalOwners)) <= MaxOwners
        /\ Len(OwnersList(additionalOwners)) = MaxOwners =>
              \E i \in DOMAIN formData :
                  /\ formData[i].name = "additional_owners"
                  /\ formData[i].value = Join(OwnersList(additionalOwners), ",")

\* ---------------------------------------------------------------- C5
\* C5: when literal media data is supplied (non-empty), the payload sent
\* in the media field is that literal data.
C5_LiteralMediaDataUsed ==
    (InFlight /\ mediaData \notin {Null, ""}) =>
        \A i \in FieldIndexes(formData, "media") : formData[i].value = mediaData

\* ---------------------------------------------------------------- C6
\* C6: an item has at most one request; the request for the current item
\* exists exactly while it is in flight, and only for a media type that
\* starts with image/; the only step that sends is the one that passes the
\* media-type check, and it sends once; no step after a response or a
\* transport error sends again; an item whose type does not start with
\* image/ sends nothing and fails, the message naming the type (unless the
\* read of the payload itself was rejected).
C6_InvalidTypeMessage(type) ==
    "Invalid media type: " \o type \o ". Only images are supported."

C6_State ==
    /\ \A i \in 0..nItems : RequestsFor(i) <= 1
    /\ \A k \in DOMAIN requests : requests[k].item <= itemIndex
    /\ InFlight => RequestsFor(itemIndex) = 1 /\ StartsWith(mediaType, "image/")
    /\ pc \in {"start", "loop", "resolve", "buffer", "returned"} =>
            RequestsFor(itemIndex) = 0

C6_Step ==
    /\ requests' # requests =>
            /\ pc = "buffer" /\ pc' = "sending"
            /\ Len(requests') = Len(requests) + 1
            /\ SubSeq(requests', 1, Len(requests)) = requests
            /\ Last(requests').item = itemIndex
    /\ (pc = "buffer" /\ pc' = "sending") => requests' # requests
    /\ (pc = "buffer" /\ pc' # "buffer"
        /\ StartsWith(binary[CHOOSE i \in DOMAIN binary :
                                 binary[i].key = actualPropertyName].mimeType,
                      "image/")) =>
            \/ pc' = "sending"
            \/ pc' = "thrown" /\ thrown'.message \in BufferErrors
            \/ pc' = "loop" /\ Last(returnData').json.error \in BufferErrors
    /\ (pc = "buffer" /\ pc' # "buffer"
        /\ ~StartsWith(binary[CHOOSE i \in DOMAIN binary :
                                  binary[i].key = actualPropertyName].mimeType,
                       "image/")) =>
            LET type == binary[CHOOSE i \in DOMAIN binary :
                                   binary[i].key = actualPropertyName].mimeType
                messages == {C6_InvalidTypeMessage(type)} \cup BufferErrors
            IN  /\ requests' = requests
                /\ pc' # "sending"
                /\ IF continueOnFail
                   THEN /\ Len(returnData') = Len(returnData) + 1
                        /\ Last(returnData').json.success = FALSE
                        /\ Last(returnData').json.error \in messages
                   ELSE pc' = "thrown" /\ thrown'.message \in messages

C6_OneRequestPerItem == [](C6_State) /\ [][C6_Step]_vars

\* An item of type text/plain was recorded as a Failure naming the type with
\* no request for it, while another item of the batch did send one.
C6_Witness ==
    /\ continueOnFail
    /\ \E i \in DOMAIN returnData :
        /\ returnData[i].json.success = FALSE
        /\ returnData[i].json.error = C6_InvalidTypeMessage("text/plain")
        /\ RequestsFor(i - 1) = 0
    /\ Len(requests) = 1

\* ---------------------------------------------------------------- C7
\* C7: the step after the response records, for a status below 400, a
\* Success result carrying the body, and for a status >= 400 with failures
\* tolerated a Failure result carrying the same status code and the body.
C7_CarriesStatus(json, statusCode) ==
    \E f \in DOMAIN json \ {"success", "error", "details"} :
        json[f] = String(statusCode)

C7_Step ==
    (pc = "received" /\ pc' # "received") =>
        IF response.statusCode < 400
        THEN /\ Len(returnData') = Len(returnData) + 1
             /\ Last(returnData').json = Spread(response.body) @@ [success |-> TRUE]
        ELSE continueOnFail =>
                /\ Len(returnData') = Len(returnData) + 1
                /\ Last(returnData').json.success = FALSE
                /\ Last(returnData').json.details = response.body
                /\ C7_CarriesStatus(Last(returnData').json, response.statusCode)

C7_FailureCarriesStatusAndBody == [][C7_Step]_vars

\* ---------------------------------------------------------------- C8
\* C8 (as claimed): media is the last field of every request body.
C8_MediaIsLast == InFlight => Last(formData).name = "media"

\* C8 (amended): there is one media field; command, totalBytes, mediaType
\* and media_category (when present) come before it, in that order; the
\* only field that may follow it is additional_owners, which is then last.
C8_MediaThenOwners ==
    InFlight =>
        /\ Cardinality(FieldIndexes(formData, "media")) = 1
        /\ \A m \in FieldIndexes(formData, "media") :
            /\ m \in {4, 5}
            /\ formData[1].name = "command"
            /\ formData[2].name = "totalBytes"
            /\ formData[3].name = "mediaType"
            /\ m = 5 <=> (mediaCategory \notin {Null, ""})
            /\ m = 5 => formData[4].name = "media_category"
            /\ Len(formData) <= m + 1
            /\ Len(formData) = m + 1 => formData[m + 1].name = "additional_owners"

\* A request in flight whose last field is additional_owners, right after
\* media.
C8_Witness ==
    /\ pc = "sending"
    /\ Len(formData) = 6
    /\ formData[5].name = "media"
    /\ formData[6].name = "additional_owners"
    /\ formData[6].value = "7,8"

\* ---------------------------------------------------------------- C9
\* C9: once resolution passed, the selected property is the named one when
\* the item has it, and otherwise the first property in listing order whose
\* type starts with image/; the payload, the type and the file name sent
\* are those of the selected attachment (image.jpg when it has no file
\* name); when the named one is absent and no type starts with image/, the
\* item fails at resolution with the missing-media error and no request.
C9_Images == {i \in DOMAIN binary : StartsWith(binary[i].mimeType, "image/")}

C9_Named == \E i \in DOMAIN binary : binary[i].key = binaryPropertyName

C9_MissingMessage ==
    "No binary data found in property \"" \o binaryPropertyName
    \o "\" and no image alternatives found"

C9_State ==
    /\ pc \in {"buffer", "sending", "received"} =>
        IF C9_Named THEN actualPropertyName = binaryPropertyName
        ELSE \E i \in C9_Images :
                /\ \A j \in C9_Images : i <= j
                /\ actualPropertyName = binary[i].key
    /\ InFlight =>
        \E i \in DOMAIN binary :
            /\ binary[i].key = actualPropertyName
            /\ binaryData = binary[i].data
            /\ mediaType = binary[i].mimeType
            /\ fileName = IF binary[i].fileName \in {Null, ""}
                          THEN "image.jpg" ELSE binary[i].fileName
            /\ \A m \in FieldIndexes(formData, "media") :
                  /\ formData[m].value = binary[i].data
                  /\ formData[m].filename = fileName

C9_Step ==
    (pc = "resolve" /\ pc' # "resolve" /\ ~C9_Named /\ C9_Images = {}) =>
        /\ requests' = requests
        /\ IF continueOnFail
           THEN /\ pc' = "loop"
                /\ Len(returnData') = Len(returnData) + 1
                /\ Last(returnData').json.success = FALSE
                /\ Last(returnData').json.error = C9_MissingMessage
           ELSE pc' = "thrown" /\ thrown'.message = C9_MissingMessage

C9_FallbackResolution == [](C9_State) /\ [][C9_Step]_vars

\* The named property doc is absent and two image attachments are listed,
\* photo before data: photo is the one sent.
C9_Witness ==
    /\ pc = "sending"
    /\ binaryPropertyName = "doc"
    /\ Len(binary) = 2
    /\ binary[1].key = "photo"
    /\ binary[2].key = "data"
    /\ actualPropertyName = "photo"
    /\ binaryData = "JPEG!"

\* --------------------------------------------------------------- C10
\* C10: a request carries an additional_owners field only if the list left
\* after splitting on commas, trimming and dropping empty entries is
\* non-empty.
C10_OwnersFieldOnlyIfNonEmpty ==
    (InFlight /\ FieldIndexes(formData, "additional_owners") # {}) =>
        /\ additionalOwners \notin {Null, NotConfigured}
        /\ Len(OwnersList(additionalOwners)) > 0

====
